---------------------------- MODULE Spec2Model ----------------------------
(***************************************************************************)
(* A model of FpsCheck (src/FpsCheck.py): the loader of first-party-set    *)
(* submissions and the checkers that append findings to error_list.       *)
(*                                                                         *)
(* Strings are sequences of one-character strings, so that startswith,    *)
(* split, concatenation and iteration over a string are computed as       *)
(* Python computes them.  An optional value (a field that may be None) is  *)
(* a sequence of length 0 (None) or 1 (the value).                         *)
(***************************************************************************)
EXTENDS Naturals, Sequences, FiniteSets

(***************************************************************************)
(* Bounds of the model.                                                    *)
(***************************************************************************)
\* the checkers called in one run
MaxCalls == 2
\* the records of a submission of the loader
MaxSets == 3

(***************************************************************************)
(* Python values.                                                          *)
(***************************************************************************)
None == <<>>
Some(x) == <<x>>
IsNone(o) == o = <<>>
Val(o) == o[1]
\* bool(x) of an optional list or dict: not None and not empty
Truthy(o) == o # <<>> /\ Len(o[1]) > 0
\* set(list)
ToSet(s) == {s[i] : i \in DOMAIN s}
\* A ^ B
SymDiff(A, B) == (A \ B) \cup (B \ A)

RECURSIVE Flatten(_)
Flatten(ss) == IF ss = <<>> THEN <<>> ELSE Head(ss) \o Flatten(Tail(ss))

\* str.startswith
StartsWith(s, p) == Len(s) >= Len(p) /\ SubSeq(s, 1, Len(p)) = p

\* the position of the first sep in s at or after i, 0 when there is none
RECURSIVE FindFrom(_, _, _)
FindFrom(s, sep, i) ==
    IF i > Len(s) THEN 0
    ELSE IF s[i] = sep THEN i
    ELSE FindFrom(s, sep, i + 1)

\* str.split(sep): all the pieces
RECURSIVE Split(_, _)
Split(s, sep) ==
    LET k == FindFrom(s, sep, 1)
    IN  IF k = 0 THEN <<s>>
        ELSE <<SubSeq(s, 1, k - 1)>> \o Split(SubSeq(s, k + 1, Len(s)), sep)

\* str.split(sep, 1): at most one cut
Split1(s, sep) ==
    LET k == FindFrom(s, sep, 1)
    IN  IF k = 0 THEN <<s>>
        ELSE <<SubSeq(s, 1, k - 1), SubSeq(s, k + 1, Len(s))>>

\* the elements a Python iteration over the string s yields
Chars(s) == {<<s[i]>> : i \in DOMAIN s}

(***************************************************************************)
(* String literals.                                                        *)
(***************************************************************************)
HTTPS == <<"h", "t", "t", "p", "s", ":", "/", "/">>
HTTP == <<"h", "t", "t", "p", ":", "/", "/">>
COM == <<"c", "o", "m">>
WellKnownPath == <<"/", ".well-known/first-party-set.json">>
RobotsPath == <<"/", "r", "o", "b", "o", "t", "s", ".", "t", "x", "t">>
AdsPath == <<"/", "a", "d", "s", ".", "t", "x", "t">>
RootPath == <<"/">>

(***************************************************************************)
(* A finding: one string of error_list, kept as the message (kind) and    *)
(* the values interpolated in it.  str(set) is kept as the set.            *)
(***************************************************************************)
Finding(kind, site, other, sites, err) ==
    [kind |-> kind, site |-> site, other |-> other, sites |-> sites, err |-> err]

\* a finding with the iteration that appended it
Tagged(f, at) == [f |-> f, at |-> at]

\* FpsSet(ccTLDs, primary, associated_sites, service_sites)
FpsSet(ccTLDs, primary, associated_sites, service_sites) ==
    [ccTLDs |-> ccTLDs, primary |-> primary,
     associated_sites |-> associated_sites, service_sites |-> service_sites]

\* FpsSet.relevant_fields_dict[field]: the same objects as the attributes
relevant_fields_dict(fps, field) ==
    CASE field = "ccTLDs" -> fps.ccTLDs
      [] field = "primary" -> Some(fps.primary)
      [] field = "associatedSites" -> fps.associated_sites
      [] field = "serviceSites" -> fps.service_sites

\* the position of the key in the ordered dict cs (a sequence), 0 when absent
RECURSIVE IndexOf(_, _, _)
IndexOf(cs, primary, i) ==
    IF i > Len(cs) THEN 0
    ELSE IF cs[i].primary = primary THEN i
    ELSE IndexOf(cs, primary, i + 1)

\* dict lookups on a ccTLDs dict, a sequence of [k, v] in insertion order
DictKeys(d) == {d[i].k : i \in DOMAIN d}
DictGet(d, key) == d[CHOOSE i \in DOMAIN d : d[i].k = key].v

(***************************************************************************)
(* load_sets                                                               *)
(***************************************************************************)
RECURSIVE load_sets_loop(_, _, _, _)
load_sets_loop(sets, i, check_sets, load_sets_errors) ==
    IF i > Len(sets) THEN [cs |-> check_sets, out |-> load_sets_errors]
    ELSE LET fpset == sets[i]
             primary == fpset.primary
         IN  IF IndexOf(check_sets, primary, 1) # 0
             THEN load_sets_loop(sets, i + 1, check_sets,
                      Append(load_sets_errors,
                          Tagged(Finding("already_primary", primary, <<>>, {}, ""), i)))
             ELSE load_sets_loop(sets, i + 1,
                      Append(check_sets,
                          FpsSet(fpset.ccTLDs, primary, fpset.associatedSites,
                                 fpset.serviceSites)),
                      load_sets_errors)

\* a loader in which a later record overwrites the entry of its primary
load_sets_overwrite(sets) ==
    LET r == load_sets_loop(sets, 1, <<>>, <<>>)
        last(primary) == CHOOSE k \in DOMAIN sets :
                             /\ sets[k].primary = primary
                             /\ \A m \in DOMAIN sets : m > k => sets[m].primary # primary
    IN  [cs |-> [i \in DOMAIN r.cs |->
                    LET fpset == sets[last(r.cs[i].primary)]
                    IN  FpsSet(fpset.ccTLDs, fpset.primary, fpset.associatedSites,
                               fpset.serviceSites)],
         out |-> r.out]

load_sets(sets) == load_sets_loop(sets, 1, <<>>, <<>>)

(***************************************************************************)
(* has_all_rationales                                                      *)
(***************************************************************************)
\* a check that reports a missing rationaleBySite once per site
has_all_rationales_per_site(fpset, i, check_sets) ==
    LET fps == check_sets[IndexOf(check_sets, fpset.primary, 1)]
        sites == (IF Truthy(fps.associated_sites) THEN Val(fps.associated_sites) ELSE <<>>)
                 \o (IF Truthy(fps.service_sites) THEN Val(fps.service_sites) ELSE <<>>)
    IN  Flatten([j \in 1..Len(sites) |->
            IF IsNone(fpset.rationaleBySite) \/ sites[j] \notin Val(fpset.rationaleBySite)
            THEN <<Tagged(Finding("no_rationale", sites[j], <<>>, {}, ""), i)>>
            ELSE <<>>])

has_all_rationales_set(fpset, i, check_sets) ==
    LET fps == check_sets[IndexOf(check_sets, fpset.primary, 1)]
        service_sites == fps.service_sites
        sites == IF Truthy(fps.associated_sites)
                 THEN (IF Truthy(service_sites)
                       THEN Some(Val(fps.associated_sites) \o Val(service_sites))
                       ELSE fps.associated_sites)
                 ELSE service_sites
        rationales == fpset.rationaleBySite
        missing == IF Truthy(sites) /\ ~IsNone(rationales)
                   THEN LET l == Val(sites)
                        IN  Flatten([j \in 1..Len(l) |->
                                IF l[j] \notin Val(rationales)
                                THEN <<Tagged(Finding("no_rationale", l[j], <<>>, {}, ""), i)>>
                                ELSE <<>>])
                   ELSE <<>>
        required == IF ~IsNone(sites) /\ IsNone(rationales)
                    THEN <<Tagged(Finding("rationale_required", <<>>, <<>>, {}, ""), i)>>
                    ELSE <<>>
    IN  missing \o required

has_all_rationales(sets, check_sets) ==
    [cs |-> check_sets,
     out |-> Flatten([i \in 1..Len(sets) |-> has_all_rationales_set(sets[i], i, check_sets)]),
     probes |-> <<>>, raised |-> FALSE]

(***************************************************************************)
(* check_exclusivity                                                       *)
(***************************************************************************)
\* one role list of one set against site_list: a finding, or the list joins
\* site_list
exclusivity_role(kind, sites, site_list, at) ==
    LET overlap == ToSet(sites) \cap site_list
    IN  IF overlap # {}
        THEN [sl |-> site_list,
              out |-> <<Tagged(Finding(kind, <<>>, <<>>, overlap, ""), at)>>]
        ELSE [sl |-> site_list \cup ToSet(sites), out |-> <<>>]

exclusivity_primary(primary, site_list, at) ==
    IF primary \in site_list
    THEN [sl |-> site_list,
          out |-> <<Tagged(Finding("excl_primary", primary, <<>>, {}, ""), at)>>]
    ELSE [sl |-> site_list \cup Chars(primary), out |-> <<>>]

RECURSIVE exclusivity_ccTLDs(_, _, _, _, _)
exclusivity_ccTLDs(d, j, site_list, out, at) ==
    IF j > Len(d) THEN [sl |-> site_list, out |-> out]
    ELSE LET r == exclusivity_role("excl_ccTLD", d[j].v, site_list, at)
         IN  exclusivity_ccTLDs(d, j + 1, r.sl, out \o r.out, at)

RECURSIVE check_exclusivity_loop(_, _, _, _)
check_exclusivity_loop(check_sets, p, site_list, out) ==
    IF p > Len(check_sets) THEN out
    ELSE LET fps == check_sets[p]
             r1 == exclusivity_primary(fps.primary, site_list, p)
             r2 == IF Truthy(fps.associated_sites)
                   THEN exclusivity_role("excl_associated",
                            Val(fps.associated_sites), r1.sl, p)
                   ELSE [sl |-> r1.sl, out |-> <<>>]
             r3 == IF Truthy(fps.service_sites)
                   THEN exclusivity_role("excl_service",
                            Val(fps.service_sites), r2.sl, p)
                   ELSE [sl |-> r2.sl, out |-> <<>>]
             r4 == IF Truthy(fps.ccTLDs)
                   THEN exclusivity_ccTLDs(Val(fps.ccTLDs), 1, r3.sl, <<>>, p)
                   ELSE [sl |-> r3.sl, out |-> <<>>]
         IN  check_exclusivity_loop(check_sets, p + 1, r4.sl,
                 out \o r1.out \o r2.out \o r3.out \o r4.out)

check_exclusivity(check_sets) ==
    [cs |-> check_sets, out |-> check_exclusivity_loop(check_sets, 1, {}, <<>>),
     probes |-> <<>>, raised |-> FALSE]

(***************************************************************************)
(* find_non_https_urls and find_invalid_eTLD_Plus1                         *)
(***************************************************************************)
\* a test that accepts any site beginning with http
url_is_http(site) == StartsWith(site, <<"h", "t", "t", "p">>)

url_is_https(site) == StartsWith(site, HTTPS)

\* the labels the public suffix list and the ICANN country-code list hold
etlds == {COM, <<"f", "r">>, <<"u", "k">>, <<"c", "o">>}
icanns == {<<"f", "r">>, <<"u", "k">>, <<"c", "o">>}

\* PublicSuffixList.get_public_suffix(site, strict=True) is not None: in
\* strict mode the lookup answers None when the top-level label is not listed
is_eTLD_Plus1(site) ==
    LET labels == Split(site, ".")
    IN  Len(labels) > 1 /\ labels[Len(labels)] \in etlds

\* the walk both format checkers make over one set: primary, then each
\* alias and its sites, then the associated sites, then the service sites;
\* prefix names the test and its family of messages
format_walk(prefix, fps, p) ==
    LET ok(site) == IF prefix = "https" THEN url_is_https(site) ELSE is_eTLD_Plus1(site)
        bad(kind, site) ==
            IF ~ok(site)
            THEN <<Tagged(Finding(prefix \o kind, site, <<>>, {}, ""), p)>>
            ELSE <<>>
        list(kind, o) ==
            IF Truthy(o)
            THEN Flatten([j \in 1..Len(Val(o)) |-> bad(kind, Val(o)[j])])
            ELSE <<>>
        aliases ==
            IF Truthy(fps.ccTLDs)
            THEN LET d == Val(fps.ccTLDs)
                 IN  Flatten([j \in 1..Len(d) |->
                         bad("_alias", d[j].k)
                         \o Flatten([n \in 1..Len(d[j].v) |->
                                bad("_alias_site", d[j].v[n])])])
            ELSE <<>>
    IN  bad("_primary", fps.primary) \o aliases
        \o list("_associated", fps.associated_sites)
        \o list("_service", fps.service_sites)

find_non_https_urls(check_sets) ==
    [cs |-> check_sets,
     out |-> Flatten([p \in 1..Len(check_sets) |->
                 format_walk("https", check_sets[p], p)]),
     probes |-> <<>>, raised |-> FALSE]

find_invalid_eTLD_Plus1(check_sets) ==
    [cs |-> check_sets,
     out |-> Flatten([p \in 1..Len(check_sets) |->
                 format_walk("etld", check_sets[p], p)]),
     probes |-> <<>>, raised |-> FALSE]

(***************************************************************************)
(* The network.  wk maps the URL of a well-known document to the outcome   *)
(* of open_and_load_json: [ok, err, doc], doc holding the optional fields  *)
(* of the JSON object.  http maps a URL to the outcome of requests.get:    *)
(* [exc, status, url, xrobots], exc "" for a response and otherwise the    *)
(* kind of the exception, whose text names the path of the request.        *)
(***************************************************************************)
Doc(primary, ccTLDs, associatedSites, serviceSites) ==
    [primary |-> primary, ccTLDs |-> ccTLDs,
     associatedSites |-> associatedSites, serviceSites |-> serviceSites]
NoDoc == Doc(None, None, None, None)
Fetched(doc) == [ok |-> TRUE, err |-> "", doc |-> doc]
FetchError(err) == [ok |-> FALSE, err |-> err, doc |-> NoDoc]

Response(status, url, xrobots) ==
    [exc |-> "", status |-> status, url |-> url, xrobots |-> xrobots]
RequestError(kind) == [exc |-> kind, status |-> 0, url |-> <<>>, xrobots |-> ""]

\* open_and_load_json(url); a URL the network does not list is unreachable
open_and_load_json(wk, url) ==
    IF url \in DOMAIN wk THEN wk[url] ELSE FetchError("HTTPError")

\* requests.get(url, timeout=10); a URL the network does not list is
\* unreachable
requests_get(http, url) ==
    IF url \in DOMAIN http THEN http[url] ELSE RequestError("retries")

\* a lookup that takes an absent key for an empty value
doc_field_or_empty(doc, field) ==
    LET v == CASE field = "ccTLDs" -> doc.ccTLDs
               [] field = "primary" -> doc.primary
               [] field = "associatedSites" -> doc.associatedSites
               [] field = "serviceSites" -> doc.serviceSites
    IN  IF IsNone(v) THEN Some(<<>>) ELSE v

\* json_schema[field] of a fetched document, None when the key is absent
doc_field(doc, field) ==
    CASE field = "ccTLDs" -> doc.ccTLDs
      [] field = "primary" -> doc.primary
      [] field = "associatedSites" -> doc.associatedSites
      [] field = "serviceSites" -> doc.serviceSites

acceptable_fields == {"ccTLDs", "primary", "associatedSites", "serviceSites"}

(***************************************************************************)
(* check_list_sites                                                        *)
(***************************************************************************)
\* a turn without the handler: a failed fetch escapes
check_list_site_uncaught(wk, primary, site, at) ==
    LET r == open_and_load_json(wk, site \o WellKnownPath)
    IN  [out |-> IF r.ok /\ IsNone(r.doc.primary)
                 THEN <<Tagged(Finding("wk_no_primary_key", site, <<>>, {}, ""), at)>>
                 ELSE IF r.ok /\ Val(r.doc.primary) # primary
                 THEN <<Tagged(Finding("wk_wrong_primary", site, primary, {}, ""), at)>>
                 ELSE <<>>,
         raised |-> ~r.ok]

\* one turn of the loop of check_list_sites: the document of the site is
\* fetched inside try, and except Exception turns a failure into a finding
check_list_site(wk, primary, site, at) ==
    LET url == site \o WellKnownPath
        r == open_and_load_json(wk, url)
    IN  [out |-> IF ~r.ok
                 THEN <<Tagged(Finding("wk_access_error", url, <<>>, {}, r.err), at)>>
                 ELSE IF IsNone(r.doc.primary)
                 THEN <<Tagged(Finding("wk_no_primary_key", site, <<>>, {}, ""), at)>>
                 ELSE IF Val(r.doc.primary) # primary
                 THEN <<Tagged(Finding("wk_wrong_primary", site, primary, {}, ""), at)>>
                 ELSE <<>>,
         raised |-> FALSE]

\* the fetches check_list_sites makes for a list, in order
check_list_sites(site_list, at) ==
    [j \in 1..Len(site_list) |-> [member |-> TRUE, site |-> site_list[j], at |-> at]]

(***************************************************************************)
(* find_invalid_well_known                                                 *)
(***************************************************************************)
\* the fields of the fetched document that are compared
schema_fields(doc) == {field \in acceptable_fields : ~IsNone(doc_field(doc, field))}

\* the comparison of one field of the fetched document with the set:
\* [raised, err, diff]
well_known_field(doc, fps, field) ==
    LET mine == relevant_fields_dict(fps, field)
        theirs == Val(doc_field(doc, field))
    IN  IF field = "primary"
        THEN [raised |-> FALSE, err |-> "",
              diff |-> IF theirs # fps.primary THEN {theirs, fps.primary} ELSE {}]
        ELSE IF IsNone(mine)
        THEN [raised |-> TRUE, err |-> "TypeError", diff |-> {}]
        ELSE IF field = "ccTLDs"
        THEN IF \E j \in DOMAIN theirs : theirs[j].k \notin DictKeys(Val(mine))
             THEN [raised |-> TRUE, err |-> "KeyError", diff |-> {}]
             ELSE [raised |-> FALSE, err |-> "",
                   diff |-> SymDiff(DictKeys(theirs), DictKeys(Val(mine)))
                            \cup UNION {SymDiff(ToSet(theirs[j].v),
                                            ToSet(DictGet(Val(mine), theirs[j].k)))
                                        : j \in DOMAIN theirs}]
        ELSE [raised |-> FALSE, err |-> "",
              diff |-> SymDiff(ToSet(theirs), ToSet(Val(mine)))]

\* the loop over schema_fields, in the order the set iterates; an exception
\* of a comparison ends it in the handler
RECURSIVE well_known_fields(_, _, _, _, _, _)
well_known_fields(doc, fps, order, n, url, at) ==
    IF n > Len(order) THEN <<>>
    ELSE IF order[n] \notin schema_fields(doc)
    THEN well_known_fields(doc, fps, order, n + 1, url, at)
    ELSE LET c == well_known_field(doc, fps, order[n])
         IN  IF c.raised
             THEN <<Tagged(Finding("wk_access_error", url, <<>>, {}, c.err), at)>>
             ELSE (IF c.diff # {}
                   THEN <<Tagged(Finding("wk_mismatch_" \o order[n], <<>>, <<>>,
                                         c.diff, ""), at)>>
                   ELSE <<>>)
                  \o well_known_fields(doc, fps, order, n + 1, url, at)

\* the check of the document of the primary, all of it inside try
well_known_primary(wk, order, fps, at) ==
    LET url == fps.primary \o WellKnownPath
        r == open_and_load_json(wk, url)
    IN  [out |-> IF ~r.ok
                 THEN <<Tagged(Finding("wk_access_error", url, <<>>, {}, r.err), at)>>
                 ELSE well_known_fields(r.doc, fps, order, 1, url, at),
         raised |-> FALSE]

\* the ccTLD loop: check_list_sites runs on the list accumulated so far
RECURSIVE well_known_ccTLDs(_, _, _, _)
well_known_ccTLDs(d, j, ccTLD_sites, at) ==
    IF j > Len(d) THEN <<>>
    ELSE check_list_sites(ccTLD_sites \o d[j].v, at)
         \o well_known_ccTLDs(d, j + 1, ccTLD_sites \o d[j].v, at)

\* the fetches find_invalid_well_known makes for one set, in order
well_known_steps(fps, at) ==
    <<[member |-> FALSE, site |-> fps.primary, at |-> at]>>
    \o (IF Truthy(fps.associated_sites)
        THEN check_list_sites(Val(fps.associated_sites), at) ELSE <<>>)
    \o (IF Truthy(fps.service_sites)
        THEN check_list_sites(Val(fps.service_sites), at) ELSE <<>>)
    \o (IF Truthy(fps.ccTLDs)
        THEN well_known_ccTLDs(Val(fps.ccTLDs), 1, <<>>, at) ELSE <<>>)

\* the fetches in turn, up to one that lets an exception escape
RECURSIVE well_known_run(_, _, _, _, _)
well_known_run(wk, order, check_sets, steps, n) ==
    IF n > Len(steps) THEN [out |-> <<>>, probes |-> <<>>, raised |-> FALSE]
    ELSE LET step == steps[n]
             fps == check_sets[step.at]
             r == IF step.member
                  THEN check_list_site(wk, fps.primary, step.site, step.at)
                  ELSE well_known_primary(wk, order, fps, step.at)
             rest == well_known_run(wk, order, check_sets, steps, n + 1)
         IN  IF r.raised
             THEN [out |-> r.out, probes |-> <<step.site \o WellKnownPath>>,
                   raised |-> TRUE]
             ELSE [out |-> r.out \o rest.out,
                   probes |-> <<step.site \o WellKnownPath>> \o rest.probes,
                   raised |-> rest.raised]

find_invalid_well_known(wk, order, check_sets) ==
    LET steps == Flatten([p \in 1..Len(check_sets) |->
                     well_known_steps(check_sets[p], p)])
        r == well_known_run(wk, order, check_sets, steps, 1)
    IN  [cs |-> check_sets, out |-> r.out, probes |-> r.probes, raised |-> r.raised]

(***************************************************************************)
(* find_invalid_alias_eSLDs                                                *)
(***************************************************************************)
\* the checks of the sites listed under one alias
alias_eSLDs(aliased_site, aliased_domain, icann_check, alias_sites, at) ==
    Flatten([n \in 1..Len(alias_sites) |->
        LET site == alias_sites[n]
            labels == Split(site, ".")
        IN  (IF labels[1] # aliased_domain
             THEN <<Tagged(Finding("alias_must_match", aliased_site, site, {}, ""), at)>>
             ELSE <<>>)
            \o (IF labels[Len(labels)] \notin icann_check
                THEN <<Tagged(Finding("alias_bad_cc", site, labels[Len(labels)], {}, ""), at)>>
                ELSE <<>>)])

\* "sites = curr_set.associated_sites" binds the list object itself, so
\* "sites += curr_set.service_sites" extends associated_sites in place; the
\* fresh list of the else branch is the only one that is local
alias_member_sites(fps) ==
    LET base == IF Truthy(fps.associated_sites) THEN Val(fps.associated_sites) ELSE <<>>
        sites == IF Truthy(fps.service_sites) THEN base \o Val(fps.service_sites) ELSE base
    IN  [sites |-> sites,
         associated_sites |-> IF Truthy(fps.associated_sites)
                              THEN Some(sites) ELSE fps.associated_sites]

\* the loop over the aliases of one set: [fps, out, raised]
RECURSIVE alias_eSLDs_set(_, _, _, _)
alias_eSLDs_set(fps, j, out, at) ==
    IF ~Truthy(fps.ccTLDs) \/ j > Len(Val(fps.ccTLDs))
    THEN [fps |-> fps, out |-> out, raised |-> FALSE]
    ELSE LET aliased_site == Val(fps.ccTLDs)[j].k
             m == alias_member_sites(fps)
             fps1 == IF aliased_site # fps.primary
                     THEN [fps EXCEPT !.associated_sites = m.associated_sites]
                     ELSE fps
             out1 == IF aliased_site # fps.primary /\ aliased_site \notin ToSet(m.sites)
                     THEN <<Tagged(Finding("alias_not_member", aliased_site,
                                           fps.primary, {}, ""), at)>>
                     ELSE <<>>
             parts == Split1(aliased_site, ".")
         IN  IF Len(parts) # 2
             THEN [fps |-> fps1, out |-> out \o out1, raised |-> TRUE]
             ELSE LET icann_check == IF parts[2] \in icanns
                                     THEN icanns \cup {COM} ELSE icanns
                  IN  alias_eSLDs_set(fps1, j + 1,
                          out \o out1
                          \o alias_eSLDs(aliased_site, parts[1], icann_check,
                                         Val(fps.ccTLDs)[j].v, at),
                          at)

RECURSIVE find_invalid_alias_eSLDs_loop(_, _, _)
find_invalid_alias_eSLDs_loop(check_sets, p, out) ==
    IF p > Len(check_sets)
    THEN [cs |-> check_sets, out |-> out, probes |-> <<>>, raised |-> FALSE]
    ELSE LET r == alias_eSLDs_set(check_sets[p], 1, <<>>, p)
             cs1 == [check_sets EXCEPT ![p] = r.fps]
         IN  IF r.raised
             THEN [cs |-> cs1, out |-> out \o r.out, probes |-> <<>>, raised |-> TRUE]
             ELSE find_invalid_alias_eSLDs_loop(cs1, p + 1, out \o r.out)

find_invalid_alias_eSLDs(check_sets) == find_invalid_alias_eSLDs_loop(check_sets, 1, <<>>)

(***************************************************************************)
(* The checks of the service sites                                         *)
(***************************************************************************)
\* the text of an exception of kind exc raised by a request for path holds
\* "Max retries exceeded with url: " + retries_path, or the read-timeout text
expected_failure(exc, path, retries_path) ==
    \/ exc = "retries" /\ StartsWith(path, retries_path)
    \/ exc = "timeout"

\* every listed service site, in the order the loops visit them: [site, at]
service_listing(check_sets) ==
    Flatten([p \in 1..Len(check_sets) |->
        IF Truthy(check_sets[p].service_sites)
        THEN [j \in 1..Len(Val(check_sets[p].service_sites)) |->
                 [site |-> Val(check_sets[p].service_sites)[j], at |-> p]]
        ELSE <<>>])

unexpected(kind, service_site, exc, at) ==
    <<Tagged(Finding(kind, service_site, <<>>, {}, exc), at)>>

robots_txt_site(http, service_site, at) ==
    LET r == requests_get(http, service_site \o RobotsPath)
        r_service == requests_get(http, service_site)
    IN  IF r.exc # ""
        THEN [out |-> IF expected_failure(r.exc, RobotsPath, RobotsPath) THEN <<>>
                      ELSE unexpected("robots_unexpected", service_site, r.exc, at),
              probes |-> <<service_site \o RobotsPath>>]
        ELSE IF r.status # 200
        THEN [out |-> <<>>, probes |-> <<service_site \o RobotsPath>>]
        ELSE [out |-> IF r_service.exc # ""
                      THEN (IF expected_failure(r_service.exc, RootPath, RobotsPath)
                            THEN <<>>
                            ELSE unexpected("robots_unexpected", service_site,
                                            r_service.exc, at))
                      ELSE IF r_service.xrobots = ""
                      THEN <<Tagged(Finding("robots_no_tag", service_site, <<>>, {}, ""), at)>>
                      ELSE IF r_service.xrobots # "noindex"
                      THEN <<Tagged(Finding("robots_not_noindex", service_site, <<>>, {}, ""), at)>>
                      ELSE <<>>,
              probes |-> <<service_site \o RobotsPath, service_site>>]

ads_txt_site(http, service_site, at) ==
    LET r == requests_get(http, service_site \o AdsPath)
    IN  [out |-> IF r.exc # ""
                 THEN (IF expected_failure(r.exc, AdsPath, AdsPath) THEN <<>>
                       ELSE unexpected("ads_unexpected", service_site, r.exc, at))
                 ELSE IF r.status = 200
                 THEN <<Tagged(Finding("ads_txt", service_site, <<>>, {}, ""), at)>>
                 ELSE <<>>,
         probes |-> <<service_site \o AdsPath>>]

\* a check that takes only the URL without the trailing slash for no redirect
service_redirect_no_slash(http, service_site, at) ==
    LET r == requests_get(http, service_site)
    IN  [out |-> IF r.exc # ""
                 THEN (IF expected_failure(r.exc, RootPath, RootPath) THEN <<>>
                       ELSE unexpected("redirect_unexpected", service_site, r.exc, at))
                 ELSE IF (r.status < 400 \/ r.status >= 600) /\ r.url = service_site
                 THEN <<Tagged(Finding("endpoint", service_site, <<>>, {}, ""), at)>>
                 ELSE <<>>,
         probes |-> <<service_site>>]

service_redirect_site(http, service_site, at) ==
    LET r == requests_get(http, service_site)
    IN  [out |-> IF r.exc # ""
                 THEN (IF expected_failure(r.exc, RootPath, RootPath) THEN <<>>
                       ELSE unexpected("redirect_unexpected", service_site, r.exc, at))
                 ELSE IF (r.status < 400 \/ r.status >= 600)
                         /\ (r.url = service_site \/ r.url = service_site \o <<"/">>)
                 THEN <<Tagged(Finding("endpoint", service_site, <<>>, {}, ""), at)>>
                 ELSE <<>>,
         probes |-> <<service_site>>]

find_robots_txt(http, check_sets) ==
    LET l == service_listing(check_sets)
        rs == [n \in 1..Len(l) |-> robots_txt_site(http, l[n].site, l[n].at)]
    IN  [cs |-> check_sets, out |-> Flatten([n \in 1..Len(l) |-> rs[n].out]),
         probes |-> Flatten([n \in 1..Len(l) |-> rs[n].probes]), raised |-> FALSE]

find_ads_txt(http, check_sets) ==
    LET l == service_listing(check_sets)
        rs == [n \in 1..Len(l) |-> ads_txt_site(http, l[n].site, l[n].at)]
    IN  [cs |-> check_sets, out |-> Flatten([n \in 1..Len(l) |-> rs[n].out]),
         probes |-> Flatten([n \in 1..Len(l) |-> rs[n].probes]), raised |-> FALSE]

check_for_service_redirect(http, check_sets) ==
    LET l == service_listing(check_sets)
        rs == [n \in 1..Len(l) |-> service_redirect_site(http, l[n].site, l[n].at)]
    IN  [cs |-> check_sets, out |-> Flatten([n \in 1..Len(l) |-> rs[n].out]),
         probes |-> Flatten([n \in 1..Len(l) |-> rs[n].probes]), raised |-> FALSE]

(***************************************************************************)
(* The state.  fps_sites, wk and http are the inputs: the submission and   *)
(* what the network answers.  check_sets is what load_sets returned and    *)
(* every checker is handed; error_list is FpsCheck.error_list.  The rest   *)
(* is history: loaded_sets is check_sets as load_sets returned it, origin  *)
(* tells for each finding the call and the iteration that appended it,     *)
(* calls is the checkers called so far and probes the URLs requested.      *)
(***************************************************************************)
VARIABLES fps_sites, wk, http, pc, check_sets, loaded_sets, error_list,
          origin, calls, probes

vars == <<fps_sites, wk, http, pc, check_sets, loaded_sets, error_list,
          origin, calls, probes>>

Findings(out) == [n \in 1..Len(out) |-> out[n].f]
Origins(out, call) == [n \in 1..Len(out) |-> [call |-> call, at |-> out[n].at]]

\* schema_fields is a Python set of strings: it iterates in any order
FieldOrders ==
    {o \in [1..4 -> acceptable_fields] : \A i, j \in 1..4 : i # j => o[i] # o[j]}

Start ==
    /\ pc = "start"
    /\ check_sets = <<>>
    /\ loaded_sets = <<>>
    /\ error_list = <<>>
    /\ origin = <<>>
    /\ calls = <<>>
    /\ probes = <<>>

Call_load_sets ==
    /\ pc = "start"
    /\ LET r == load_sets(fps_sites)
       IN  /\ check_sets' = r.cs
           /\ loaded_sets' = r.cs
           /\ error_list' = error_list \o Findings(r.out)
           /\ origin' = origin \o Origins(r.out, 0)
    /\ pc' = "loaded"
    /\ UNCHANGED <<fps_sites, wk, http, calls, probes>>

\* a checker called on the loaded model; an exception it lets escape ends
\* the run
Checker(name, r) ==
    /\ check_sets' = r.cs
    /\ error_list' = error_list \o Findings(r.out)
    /\ origin' = origin \o Origins(r.out, Len(calls) + 1)
    /\ calls' = Append(calls, name)
    /\ probes' = probes \o [n \in 1..Len(r.probes) |->
                              [call |-> Len(calls) + 1, url |-> r.probes[n]]]
    /\ pc' = IF r.raised THEN "raised" ELSE "loaded"
    /\ UNCHANGED <<fps_sites, wk, http, loaded_sets>>

CanCall == pc = "loaded" /\ Len(calls) < MaxCalls

Call_has_all_rationales ==
    CanCall /\ Checker("has_all_rationales", has_all_rationales(fps_sites, check_sets))

Call_check_exclusivity ==
    CanCall /\ Checker("check_exclusivity", check_exclusivity(check_sets))

Call_find_non_https_urls ==
    CanCall /\ Checker("find_non_https_urls", find_non_https_urls(check_sets))

Call_find_invalid_eTLD_Plus1 ==
    CanCall /\ Checker("find_invalid_eTLD_Plus1", find_invalid_eTLD_Plus1(check_sets))

Call_find_invalid_well_known ==
    /\ CanCall
    /\ \E order \in FieldOrders :
           Checker("find_invalid_well_known",
                   find_invalid_well_known(wk, order, check_sets))

Call_find_invalid_alias_eSLDs ==
    CanCall /\ Checker("find_invalid_alias_eSLDs", find_invalid_alias_eSLDs(check_sets))

Call_find_robots_txt ==
    CanCall /\ Checker("find_robots_txt", find_robots_txt(http, check_sets))

Call_find_ads_txt ==
    CanCall /\ Checker("find_ads_txt", find_ads_txt(http, check_sets))

Call_check_for_service_redirect ==
    CanCall /\ Checker("check_for_service_redirect",
                       check_for_service_redirect(http, check_sets))

Next ==
    \/ Call_load_sets
    \/ Call_has_all_rationales
    \/ Call_check_exclusivity
    \/ Call_find_non_https_urls
    \/ Call_find_invalid_eTLD_Plus1
    \/ Call_find_invalid_well_known
    \/ Call_find_invalid_alias_eSLDs
    \/ Call_find_robots_txt
    \/ Call_find_ads_txt
    \/ Call_check_for_service_redirect

(***************************************************************************)
(* Inputs.                                                                 *)
(***************************************************************************)
FR == <<"f", "r">>
UK == <<"u", "k">>
CO == <<"c", "o">>
XX == <<"x", "x">>
Site(scheme, name, tld) == scheme \o <<name, ".">> \o tld

A_COM == Site(HTTPS, "a", COM)
A_FR == Site(HTTPS, "a", FR)
A_XX == Site(HTTPS, "a", XX)
B_COM == Site(HTTPS, "b", COM)
C_COM == Site(HTTPS, "c", COM)
C_FR == Site(HTTPS, "c", FR)
D_COM == Site(HTTPS, "d", COM)
S_COM == Site(HTTPS, "s", COM)
T_COM == Site(HTTPS, "t", COM)
H_COM == Site(HTTP, "h", COM)
H_FR == Site(HTTP, "h", FR)
G_COM == Site(HTTP, "g", COM)
K_COM == Site(HTTP, "k", COM)
\* a site without a dot
NO_DOT == HTTPS \o <<"l">>
\* a site under a suffix of two labels
A_CO_UK == Site(HTTPS, "a", CO \o <<".">> \o UK)

Domains == {A_COM, A_FR, C_FR, A_XX, B_COM, C_COM, D_COM, S_COM, T_COM, H_COM, H_FR, G_COM, K_COM, NO_DOT,
            A_CO_UK}

WellKnownUrls == {d \o WellKnownPath : d \in Domains}
HttpUrls == {d \o path : d \in Domains, path \in {<<>>, RobotsPath, AdsPath}}

\* one record of fps_sites['sets']
Record(primary, ccTLDs, associatedSites, serviceSites, rationaleBySite) ==
    [primary |-> primary, ccTLDs |-> ccTLDs, associatedSites |-> associatedSites,
     serviceSites |-> serviceSites, rationaleBySite |-> rationaleBySite]
Alias(k, v) == [k |-> k, v |-> v]

\* a network on which no document can be fetched and no request is answered
Offline_wk == <<>>
Offline_http == <<>>

\* the submissions of the loader: up to MaxSets records on two primaries
LoadRecords ==
    {Record(p, None, a, None, None) : p \in {A_COM, B_COM}, a \in {None, Some(<<C_COM>>)}}
LoadInputs == UNION {[1..n -> LoadRecords] : n \in 1..MaxSets}

InitLoad ==
    /\ fps_sites \in LoadInputs
    /\ wk = Offline_wk
    /\ http = Offline_http
    /\ Start

SpecLoad == InitLoad /\ [][Next]_vars

\* the submissions of the exclusivity check: two sets, each listing sites
\* in one role, the lists meeting the other set's primary or each other
RoleRecord(p, role, l) ==
    CASE role = "associated" -> Record(p, None, Some(l), None, None)
      [] role = "service" -> Record(p, None, None, Some(l), None)
      [] role = "ccTLD" -> Record(p, Some(<<Alias(p, l)>>), None, None, None)
      [] role = "none" -> Record(p, None, None, None, None)
Roles == {"associated", "service", "ccTLD"}
ExclInputs ==
    {<<ra, rb>> :
        ra \in {RoleRecord(A_COM, "none", <<>>)}
               \cup {RoleRecord(A_COM, role, l) :
                        role \in Roles, l \in {<<B_COM>>, <<C_COM>>, <<C_COM, D_COM>>}},
        rb \in {RoleRecord(B_COM, "none", <<>>)}
               \cup {RoleRecord(B_COM, role, l) :
                        role \in Roles,
                        l \in {<<A_COM>>, <<C_COM>>, <<D_COM, C_COM>>, <<A_COM, D_COM>>}}}

\* submissions in which a role list meets an earlier claim with one of its
\* sites while another of its sites is claimed again later: within one set
\* and the next, or along three sets
ExclChains ==
    {<<Record(A_COM, None, Some(<<C_COM>>), Some(<<C_COM, D_COM>>), None),
       RoleRecord(B_COM, role, <<D_COM>>)>> : role \in Roles}
    \cup {<<RoleRecord(A_COM, ra, <<C_COM>>), RoleRecord(B_COM, rb, <<C_COM, D_COM>>),
            RoleRecord(T_COM, rc, l)>> :
             ra \in Roles, rb \in Roles, rc \in Roles, l \in {<<D_COM>>, <<S_COM>>}}
    \cup {<<RoleRecord(A_COM, "associated", <<C_COM, B_COM>>),
            RoleRecord(B_COM, "none", <<>>)>>}

InitExcl ==
    /\ fps_sites \in ExclInputs \cup ExclChains
    /\ wk = Offline_wk
    /\ http = Offline_http
    /\ Start

SpecExcl == InitExcl /\ [][Next]_vars

\* the submissions of the format checks: one set, sites with and without
\* the https:// prefix in every role, an alias being the primary or a member
HttpsInputs ==
    {<<Record(p, c, a, sv, None)>> :
        p \in {A_COM, H_COM},
        c \in {None, Some(<<Alias(A_COM, <<A_FR>>)>>), Some(<<Alias(H_COM, <<H_FR>>)>>),
               Some(<<Alias(G_COM, <<H_FR>>)>>),
               Some(<<Alias(H_COM, <<H_FR>>), Alias(G_COM, <<A_FR>>)>>)},
        a \in {None, Some(<<C_COM>>), Some(<<G_COM>>), Some(<<G_COM, C_COM>>)},
        sv \in {None, Some(<<S_COM>>), Some(<<K_COM>>)}}

InitHttps ==
    /\ fps_sites \in HttpsInputs
    /\ wk = Offline_wk
    /\ http = Offline_http
    /\ Start

SpecHttps == InitHttps /\ [][Next]_vars

\* the submissions of the rationale check: one set whose lists are absent,
\* empty or filled, with and without rationaleBySite, with and without an
\* alias that is a member, alone or followed by a record of the same primary
RationaleInputs ==
    {<<Record(A_COM, c, a, sv, r)>> \o more :
        c \in {None, Some(<<Alias(C_COM, <<C_FR>>)>>)},
        a \in {None, Some(<<>>), Some(<<C_COM>>)},
        sv \in {None, Some(<<>>), Some(<<S_COM>>), Some(<<S_COM, T_COM>>)},
        r \in {None, Some({}), Some({C_COM}), Some({C_COM, S_COM})},
        more \in {<<>>, <<Record(A_COM, None, None, None, None)>>,
                  <<Record(A_COM, None, None, None, Some({C_COM, T_COM}))>>}}

InitRationale ==
    /\ fps_sites \in RationaleInputs
    /\ wk = Offline_wk
    /\ http = Offline_http
    /\ Start

SpecRationale == InitRationale /\ [][Next]_vars

\* a network on which the primary https://a.com publishes its document
Doc_A == Doc(Some(A_COM), None, Some(<<C_COM>>), None)
Online_wk == [u \in {A_COM \o WellKnownPath} |-> Fetched(Doc_A)]

\* the submissions of the alias check: one set whose aliases are its
\* primary, its associated site, its service site or no member, under .com,
\* under a country code and under a suffix of two labels
AliasInputs ==
    {<<Record(A_COM, c, a, sv, r)>> :
        c \in {None, Some(<<Alias(A_COM, <<A_FR>>)>>), Some(<<Alias(A_COM, <<A_XX>>)>>),
               Some(<<Alias(C_COM, <<C_FR>>)>>),
               Some(<<Alias(C_COM, <<C_FR>>), Alias(S_COM, <<A_XX>>)>>),
               Some(<<Alias(B_COM, <<A_FR, C_FR>>)>>),
               Some(<<Alias(NO_DOT, <<A_FR>>)>>),
               Some(<<Alias(A_FR, <<A_COM, A_XX>>)>>),
               Some(<<Alias(A_CO_UK, <<A_COM, A_FR>>)>>)},
        a \in {None, Some(<<C_COM>>)},
        sv \in {None, Some(<<S_COM>>)},
        r \in {None, Some({C_COM})}}

InitAlias ==
    /\ fps_sites \in AliasInputs
    /\ wk \in {Offline_wk, Online_wk}
    /\ http = Offline_http
    /\ Start

SpecAlias == InitAlias /\ [][Next]_vars

\* the submissions of the well-known check: the set of https://a.com with
\* and without associated sites, service sites and aliases, alone or before
\* a second set
WellKnownInputs ==
    {<<Record(A_COM, c, a, sv, None)>> :
        c \in {None, Some(<<Alias(A_COM, <<A_FR>>)>>),
               Some(<<Alias(A_COM, <<A_FR>>), Alias(C_COM, <<C_FR>>)>>)},
        a \in {None, Some(<<C_COM>>)},
        sv \in {None, Some(<<S_COM>>)}}
    \cup {<<Record(A_COM, c, Some(<<C_COM>>), Some(<<S_COM>>), None),
            Record(B_COM, None, Some(<<D_COM>>), None, None)>> :
        c \in {None, Some(<<Alias(A_COM, <<A_FR>>), Alias(C_COM, <<C_FR>>)>>)}}

\* what the primary https://a.com publishes: nothing, or a document that
\* omits fields, agrees with the submission or differs from it
PrimaryDocs ==
    {FetchError("HTTPError"),
     Fetched(Doc(Some(A_COM), None, None, None)),
     Fetched(Doc(Some(B_COM), None, Some(<<C_COM>>), None)),
     Fetched(Doc(Some(A_COM), Some(<<Alias(A_COM, <<A_FR>>)>>), Some(<<C_COM>>),
                 Some(<<S_COM>>))),
     Fetched(Doc(None, Some(<<Alias(A_COM, <<A_XX>>), Alias(C_COM, <<C_FR>>)>>),
                 Some(<<D_COM>>), None)),
     Fetched(Doc(Some(A_COM), None, None, Some(<<S_COM, T_COM>>)))}

\* what the member sites publish
MemberOf(primary) == Fetched(Doc(Some(primary), None, None, None))
MemberDocs ==
    {[C_COM |-> MemberOf(A_COM), S_COM |-> MemberOf(A_COM), A_FR |-> MemberOf(A_COM),
      C_FR |-> MemberOf(A_COM), D_COM |-> MemberOf(B_COM)],
     [C_COM |-> FetchError("HTTPError"), S_COM |-> FetchError("JSONDecodeError"),
      A_FR |-> FetchError("URLError"), C_FR |-> FetchError("HTTPError"),
      D_COM |-> FetchError("URLError")],
     [C_COM |-> MemberOf(B_COM), S_COM |-> Fetched(NoDoc), A_FR |-> FetchError("URLError"),
      C_FR |-> MemberOf(A_COM), D_COM |-> MemberOf(B_COM)]}

WellKnownNet(primary_doc, m) ==
    [u \in {d \o WellKnownPath : d \in {A_COM, C_COM, S_COM, A_FR, C_FR, D_COM}} |->
        CASE u = A_COM \o WellKnownPath -> primary_doc
          [] u = C_COM \o WellKnownPath -> m.C_COM
          [] u = S_COM \o WellKnownPath -> m.S_COM
          [] u = A_FR \o WellKnownPath -> m.A_FR
          [] u = C_FR \o WellKnownPath -> m.C_FR
          [] u = D_COM \o WellKnownPath -> m.D_COM]

InitWellKnown ==
    /\ fps_sites \in WellKnownInputs
    /\ wk \in {WellKnownNet(d, m) : d \in PrimaryDocs, m \in MemberDocs}
    /\ http = Offline_http
    /\ Start

SpecWellKnown == InitWellKnown /\ [][Next]_vars

\* what a service site answers to the three requests
ELSEWHERE == Site(HTTPS, "e", COM) \o <<"/">>
RobotsResponses ==
    {Response(200, <<>>, ""), Response(404, <<>>, ""), RequestError("timeout"),
     RequestError("other")}
AdsResponses ==
    {Response(200, <<>>, ""), Response(204, <<>>, ""), Response(404, <<>>, ""),
     RequestError("timeout"), RequestError("retries"), RequestError("other")}
RootResponses(site) ==
    {Response(200, site, "noindex"), Response(200, site \o <<"/">>, ""),
     Response(200, ELSEWHERE, "all"), Response(399, site, ""), Response(400, site, ""),
     Response(599, site \o <<"/">>, ""), Response(600, site, ""),
     RequestError("timeout"), RequestError("retries"), RequestError("other")}

ServiceNet(site, robots, ads, root) ==
    [u \in {site, site \o RobotsPath, site \o AdsPath} |->
        CASE u = site -> root
          [] u = site \o RobotsPath -> robots
          [] u = site \o AdsPath -> ads]
ServiceNets(site) ==
    {ServiceNet(site, robots, ads, root) :
        robots \in RobotsResponses, ads \in AdsResponses, root \in RootResponses(site)}
\* a second service site that answers everything, or nothing
Merge(f, g) == [u \in DOMAIN f \cup DOMAIN g |-> IF u \in DOMAIN f THEN f[u] ELSE g[u]]
T_Answers == ServiceNet(T_COM, Response(200, <<>>, ""), Response(200, <<>>, ""),
                        Response(200, T_COM, ""))

\* the submissions of the service checks: one service site under every
\* answer, and two sites, one of them listed by two sets, under some
ServiceInit ==
    \/ /\ fps_sites = <<Record(A_COM, None, None, Some(<<S_COM>>), None)>>
       /\ http \in ServiceNets(S_COM)
    \/ /\ fps_sites \in
              {<<Record(A_COM, None, Some(<<C_COM>>), Some(<<S_COM, T_COM>>), None)>>,
               <<Record(A_COM, None, None, Some(<<S_COM>>), None),
                 Record(B_COM, None, None, Some(<<T_COM, S_COM>>), None)>>}
       /\ http \in {Merge(ServiceNet(S_COM, Response(200, <<>>, ""), ads, root), t) :
                       ads \in {Response(200, <<>>, ""), Response(204, <<>>, ""),
                                RequestError("other")},
                       root \in {Response(200, S_COM \o <<"/">>, ""),
                                 Response(400, S_COM, ""), RequestError("retries"),
                                 RequestError("other")},
                       t \in {<<>>, T_Answers}}

InitService ==
    /\ ServiceInit
    /\ wk = Offline_wk
    /\ Start

SpecService == InitService /\ [][Next]_vars

(***************************************************************************)
(* Properties.                                                             *)
(***************************************************************************)
\* the positions in error_list of the findings a call appended (0: load_sets)
By(call) == {n \in DOMAIN error_list : origin[n].call = call}
\* the calls of one checker
CallsOf(name) == {c \in DOMAIN calls : calls[c] = name}
\* the last call was of this checker: check_sets is the model it was handed
\* (unless it is the one checker that changes it) and New are its findings
LastCall(name) == calls # <<>> /\ calls[Len(calls)] = name
New == By(Len(calls))
\* record k is the first of the submission with its primary
FirstOfPrimary(k) == \A m \in 1..(k - 1) : fps_sites[m].primary # fps_sites[k].primary

\* C4: load_sets returns one entry per distinct primary of the submission,
\* built from the first record with that primary, and appends exactly one
\* duplicate-primary finding for every record whose primary was already a key
C4_LoadSetsFirstWins ==
    pc # "start" =>
        LET dups == {k \in DOMAIN fps_sites : ~FirstOfPrimary(k)}
        IN  /\ Cardinality({loaded_sets[i].primary : i \in DOMAIN loaded_sets})
                   = Len(loaded_sets)
            /\ {loaded_sets[i].primary : i \in DOMAIN loaded_sets}
                   = {fps_sites[k].primary : k \in DOMAIN fps_sites}
            /\ \A i \in DOMAIN loaded_sets : \E k \in DOMAIN fps_sites :
                   /\ FirstOfPrimary(k)
                   /\ loaded_sets[i] = FpsSet(fps_sites[k].ccTLDs, fps_sites[k].primary,
                                              fps_sites[k].associatedSites,
                                              fps_sites[k].serviceSites)
            /\ \A k \in dups :
                   /\ Cardinality({n \in By(0) : origin[n].at = k}) = 1
                   /\ \A n \in By(0) : origin[n].at = k =>
                          error_list[n] = Finding("already_primary",
                                                  fps_sites[k].primary, <<>>, {}, "")
            /\ Cardinality(By(0)) = Cardinality(dups)

\* a submission loaded in which a later record of a primary differs from the
\* first and was reported
C4_Witness ==
    /\ pc = "loaded"
    /\ \E k, m \in DOMAIN fps_sites :
           /\ k < m
           /\ fps_sites[k].primary = fps_sites[m].primary
           /\ fps_sites[k].associatedSites # fps_sites[m].associatedSites
    /\ By(0) # {}
    /\ Len(loaded_sets) = 2

\* the finding f of check_exclusivity names the domain d
NamesDomain(f, d) == f.site = d \/ d \in f.sites

\* C1: when a domain is the primary of one set and an associated site of
\* another, check_exclusivity appends exactly one finding naming it, raised
\* while processing the later of the two sets
C1_PrimaryAssociatedConflict ==
    LastCall("check_exclusivity") =>
        \A a, b \in DOMAIN check_sets :
            (/\ a # b
             /\ Truthy(check_sets[b].associated_sites)
             /\ check_sets[a].primary \in ToSet(Val(check_sets[b].associated_sites)))
            => LET naming == {n \in New : NamesDomain(error_list[n], check_sets[a].primary)}
               IN  /\ Cardinality(naming) = 1
                   /\ \A n \in naming : origin[n].at = (IF a < b THEN b ELSE a)

\* the places of check_sets that list the domain d: as a primary, as an
\* alias (a key of ccTLDs), under an alias, as associated or as service site
Listings(d) ==
    LET cs == check_sets
        when(c, place) == IF c THEN {place} ELSE {}
        list(p, role, k, l) == {<<p, role, k, j>> : j \in {i \in DOMAIN l : l[i] = d}}
        opt(p, role, o) == IF Truthy(o) THEN list(p, role, 0, Val(o)) ELSE {}
        aliases(p) ==
            IF Truthy(cs[p].ccTLDs)
            THEN UNION {when(Val(cs[p].ccTLDs)[k].k = d, <<p, "alias", k, 0>>)
                        \cup list(p, "alias_site", k, Val(cs[p].ccTLDs)[k].v)
                        : k \in DOMAIN Val(cs[p].ccTLDs)}
            ELSE {}
    IN  UNION {when(cs[p].primary = d, <<p, "primary", 0, 0>>)
               \cup aliases(p)
               \cup opt(p, "associated", cs[p].associated_sites)
               \cup opt(p, "service", cs[p].service_sites)
               : p \in DOMAIN cs}

\* d does not begin with https://
LacksHttps(d) == \E i \in 1..Len(HTTPS) : i > Len(d) \/ d[i] # HTTPS[i]

HttpsKinds == {"https_primary", "https_alias", "https_alias_site",
               "https_associated", "https_service"}
NonHttpsFindings(d) == {n \in New : error_list[n].kind \in HttpsKinds /\ error_list[n].site = d}

\* C5 as stated: a domain without the https:// prefix yields exactly one
\* non-https finding of find_non_https_urls, whatever its role, also when it
\* is an alias that is the primary or a member of the set
C5_OneFindingPerDomain ==
    LastCall("find_non_https_urls") =>
        \A d \in Domains :
            (Listings(d) # {} /\ LacksHttps(d)) => Cardinality(NonHttpsFindings(d)) = 1

\* C5 amended: find_non_https_urls appends one non-https finding for every
\* place that lists a domain without the https:// prefix, and none for a
\* domain that has the prefix
C5_OneFindingPerListing ==
    LastCall("find_non_https_urls") =>
        /\ \A d \in Domains :
               Cardinality(NonHttpsFindings(d))
                   = (IF LacksHttps(d) THEN Cardinality(Listings(d)) ELSE 0)
        /\ \A n \in New : error_list[n].kind \in HttpsKinds /\ error_list[n].site \in Domains

\* find_non_https_urls ran on a set whose alias without https:// is also its
\* primary, and on one whose site without https:// is listed in one place
C5_Witness ==
    /\ LastCall("find_non_https_urls")
    /\ Len(check_sets) = 1
    /\ Cardinality(Listings(H_COM)) = 2
    /\ Cardinality(NonHttpsFindings(H_COM)) = 2
    /\ Cardinality(Listings(G_COM)) = 1
    /\ Cardinality(NonHttpsFindings(G_COM)) = 1

\* the set record i of the submission belongs to
SetOf(i) == check_sets[IndexOf(check_sets, fps_sites[i].primary, 1)]
\* the findings of the last call raised on record i
NewAt(i, kind) == {n \in New : origin[n].at = i /\ error_list[n].kind = kind}

\* C6: for a record without rationaleBySite whose set lists an associated or
\* a service site, has_all_rationales appends exactly one whole-set
\* 'rationaleBySite required' finding and no per-domain finding
C6_OneWholeSetFinding ==
    LastCall("has_all_rationales") =>
        \A i \in DOMAIN fps_sites :
            (/\ IsNone(fps_sites[i].rationaleBySite)
             /\ \/ Truthy(SetOf(i).associated_sites)
                \/ Truthy(SetOf(i).service_sites))
            => /\ Cardinality(NewAt(i, "rationale_required")) = 1
               /\ NewAt(i, "no_rationale") = {}

\* has_all_rationales ran on a set with one service site and no
\* rationaleBySite and appended the one finding
C6_Witness ==
    /\ LastCall("has_all_rationales")
    /\ Len(fps_sites) = 1
    /\ fps_sites[1].serviceSites = Some(<<S_COM>>)
    /\ ~Truthy(fps_sites[1].associatedSites)
    /\ IsNone(fps_sites[1].rationaleBySite)
    /\ Cardinality(New) = 1
    /\ Cardinality(NewAt(1, "rationale_required")) = 1

\* C2: no checker changes the model: after any checker calls the sets are
\* what load_sets returned
C2_CheckersLeaveSetsAlone ==
    pc = "loaded" => check_sets = loaded_sets

\* the checker of that name run on the model cs
RunChecker(name, order, cs) ==
    CASE name = "has_all_rationales" -> has_all_rationales(fps_sites, cs)
      [] name = "check_exclusivity" -> check_exclusivity(cs)
      [] name = "find_non_https_urls" -> find_non_https_urls(cs)
      [] name = "find_invalid_eTLD_Plus1" -> find_invalid_eTLD_Plus1(cs)
      [] name = "find_invalid_well_known" -> find_invalid_well_known(wk, order, cs)
      [] name = "find_invalid_alias_eSLDs" -> find_invalid_alias_eSLDs(cs)
      [] name = "find_robots_txt" -> find_robots_txt(http, cs)
      [] name = "find_ads_txt" -> find_ads_txt(http, cs)
      [] name = "check_for_service_redirect" -> check_for_service_redirect(http, cs)

\* the findings of the checkers run in the order names on the loaded model
RECURSIVE Replay(_, _, _, _)
Replay(names, order, cs, el) ==
    IF names = <<>> THEN el
    ELSE LET r == RunChecker(Head(names), order, cs)
         IN  Replay(Tail(names), order, r.cs, el \o Findings(r.out))

Reverse(s) == [i \in 1..Len(s) |-> s[Len(s) + 1 - i]]

\* C3: the order of the checker calls does not change the set of findings:
\* the calls made in the opposite order, on the same submission and network
\* (and for some iteration order of the document fields), leave the same
\* findings in error_list
C3_OrderIndependent ==
    (pc = "loaded" /\ calls # <<>>) =>
        \E order \in FieldOrders :
            ToSet(error_list)
                = ToSet(Replay(Reverse(calls), order, loaded_sets,
                               Findings(load_sets(fps_sites).out)))

\* the document the primary of the set at p publishes
PrimaryDoc(p) == open_and_load_json(wk, check_sets[p].primary \o WellKnownPath)
\* the fetched document has no key field
Omits(doc, field) ==
    \/ field = "primary" /\ doc.primary = None
    \/ field = "ccTLDs" /\ doc.ccTLDs = None
    \/ field = "associatedSites" /\ doc.associatedSites = None
    \/ field = "serviceSites" /\ doc.serviceSites = None
\* the submitted set lists something in the field
Submits(fps, field) ==
    \/ field = "primary"
    \/ field = "ccTLDs" /\ Truthy(fps.ccTLDs)
    \/ field = "associatedSites" /\ Truthy(fps.associated_sites)
    \/ field = "serviceSites" /\ Truthy(fps.service_sites)
\* every field the document has agrees with the set
SameList(o, mine) == o # None => (mine # None /\ ToSet(Val(o)) = ToSet(Val(mine)))
Agrees(doc, fps) ==
    /\ doc.primary # None => Val(doc.primary) = fps.primary
    /\ SameList(doc.associatedSites, fps.associated_sites)
    /\ SameList(doc.serviceSites, fps.service_sites)
    /\ doc.ccTLDs # None =>
           /\ fps.ccTLDs # None
           /\ DictKeys(Val(doc.ccTLDs)) = DictKeys(Val(fps.ccTLDs))
           /\ \A key \in DictKeys(Val(doc.ccTLDs)) :
                  ToSet(DictGet(Val(doc.ccTLDs), key)) = ToSet(DictGet(Val(fps.ccTLDs), key))
MismatchKinds == {"wk_mismatch_" \o field : field \in acceptable_fields}
\* the findings of the last call about the document of the primary of p
PrimaryDocFindings(p) ==
    {n \in New : /\ origin[n].at = p
                 /\ \/ error_list[n].kind \in MismatchKinds
                    \/ error_list[n].site = check_sets[p].primary \o WellKnownPath}

\* C7: a field the fetched document of the primary omits is not compared:
\* find_invalid_well_known appends no mismatch finding for it, and when the
\* fields the document does have agree with the set, no finding about the
\* document at all, whatever the set lists in the omitted fields
C7_OmittedFieldNotCompared ==
    LastCall("find_invalid_well_known") =>
        \A p \in DOMAIN check_sets :
            PrimaryDoc(p).ok =>
                /\ \A field \in acceptable_fields :
                       Omits(PrimaryDoc(p).doc, field) =>
                           \A n \in New : origin[n].at = p =>
                               error_list[n].kind # "wk_mismatch_" \o field
                /\ Agrees(PrimaryDoc(p).doc, check_sets[p]) => PrimaryDocFindings(p) = {}

\* find_invalid_well_known ran on a set that lists an associated site while
\* the fetched document of its primary omits associatedSites, without a
\* finding about the document
C7_Witness ==
    /\ LastCall("find_invalid_well_known")
    /\ PrimaryDoc(1).ok
    /\ Omits(PrimaryDoc(1).doc, "associatedSites")
    /\ Submits(check_sets[1], "associatedSites")
    /\ ~Omits(PrimaryDoc(1).doc, "primary")
    /\ PrimaryDocFindings(1) = {}

\* the URLs the last call requested, one element per request
NewProbes == {k \in DOMAIN probes : probes[k].call = Len(calls)}
\* the sites of a set whose documents find_invalid_well_known is to fetch
WellKnownSites(fps) ==
    {fps.primary}
    \cup (IF Truthy(fps.associated_sites) THEN ToSet(Val(fps.associated_sites)) ELSE {})
    \cup (IF Truthy(fps.service_sites) THEN ToSet(Val(fps.service_sites)) ELSE {})
    \cup (IF Truthy(fps.ccTLDs)
          THEN UNION {ToSet(Val(fps.ccTLDs)[k].v) : k \in DOMAIN Val(fps.ccTLDs)}
          ELSE {})

\* C10: find_invalid_well_known never aborts: whatever fetches fail, the call
\* returns, the document of every primary, associated site, service site
\* and ccTLD sibling of every set has been requested, and every failed
\* request is recorded as one 'error when trying to access' finding naming
\* its URL
C10_WellKnownNeverAborts ==
    LastCall("find_invalid_well_known") =>
        /\ pc = "loaded"
        /\ \A p \in DOMAIN check_sets : \A site \in WellKnownSites(check_sets[p]) :
               \E k \in NewProbes : probes[k].url = site \o WellKnownPath
        /\ \A u \in WellKnownUrls :
               ~open_and_load_json(wk, u).ok =>
                   Cardinality({n \in New : /\ error_list[n].kind = "wk_access_error"
                                            /\ error_list[n].site = u
                                            /\ error_list[n].err
                                                   = open_and_load_json(wk, u).err})
                       = Cardinality({k \in NewProbes : probes[k].url = u})

\* find_invalid_well_known returned after failed fetches of the primary of
\* the first of two sets and of its members, the second set probed
C10_Witness ==
    /\ LastCall("find_invalid_well_known")
    /\ pc = "loaded"
    /\ Len(check_sets) = 2
    /\ ~PrimaryDoc(1).ok
    /\ ~open_and_load_json(wk, C_COM \o WellKnownPath).ok
    /\ \E n \in New : error_list[n].site = C_COM \o WellKnownPath
    /\ \E k \in NewProbes : probes[k].url = D_COM \o WellKnownPath

\* the places that list d as a service site
ServiceListings(d) == {l \in Listings(d) : l[2] = "service"}
ServiceSites == {d \in Domains : ServiceListings(d) # {}}
NewOf(kind, d) == {n \in New : error_list[n].kind = kind /\ error_list[n].site = d}

\* C8: a service site whose /ads.txt request is answered with a 2xx status
\* gets one advertising-marker finding of find_ads_txt for each listing,
\* whatever its /robots.txt and root-page requests give
C8_AdsTxtSuccessIsFinding ==
    LastCall("find_ads_txt") =>
        \A d \in ServiceSites :
            LET r == requests_get(http, d \o AdsPath)
            IN  (r.exc = "" /\ r.status >= 200 /\ r.status <= 299)
                => Cardinality(NewOf("ads_txt", d)) = Cardinality(ServiceListings(d))

\* C9: for each listing of a service site, check_for_service_redirect
\* appends nothing when the root-page request fails with the read-timeout or
\* the retries-exhausted text, one 'must not be an endpoint' finding when the
\* response has a status outside 400..599 and the URL of the site, with or
\* without a trailing slash, one 'unexpected error' finding for any other
\* failure, and nothing otherwise
C9_ServiceRedirectFindings ==
    LastCall("check_for_service_redirect") =>
        /\ \A d \in ServiceSites :
               LET r == requests_get(http, d)
                   endpoint == /\ r.exc = ""
                               /\ ~(r.status >= 400 /\ r.status <= 599)
                               /\ r.url \in {d, d \o <<"/">>}
                   other == r.exc \notin {"", "timeout", "retries"}
               IN  /\ Cardinality(NewOf("endpoint", d))
                          = (IF endpoint THEN Cardinality(ServiceListings(d)) ELSE 0)
                   /\ Cardinality(NewOf("redirect_unexpected", d))
                          = (IF other THEN Cardinality(ServiceListings(d)) ELSE 0)
        /\ \A n \in New : /\ error_list[n].kind \in {"endpoint", "redirect_unexpected"}
                          /\ error_list[n].site \in ServiceSites

\* check_for_service_redirect ran on a site that answers with its own URL
\* and a trailing slash and reported it, and on one that failed otherwise
C9_Witness ==
    /\ LastCall("check_for_service_redirect")
    /\ requests_get(http, S_COM) \in {Response(200, S_COM \o <<"/">>, ""),
                                      RequestError("other")}
    /\ Cardinality(New) = 1

\* every list or map the document has is one the set has too: no comparison
\* of the document meets None on the side of the set
Comparable(doc, fps) ==
    /\ doc.ccTLDs # None => fps.ccTLDs # None
    /\ doc.associatedSites # None => fps.associated_sites # None
    /\ doc.serviceSites # None => fps.service_sites # None
\* the disagreement of a fetched and a submitted alias map: the keys one of
\* them lacks and, for the keys of both, the siblings one of them lacks
AliasMapDifference(theirs, mine) ==
    SymDiff(DictKeys(theirs), DictKeys(mine))
    \cup UNION {SymDiff(ToSet(DictGet(theirs, key)), ToSet(DictGet(mine, key)))
                : key \in DictKeys(theirs) \cap DictKeys(mine)}
\* the ccTLDs mismatch findings of the last call for the set at p
AliasMapFindings(p) ==
    {n \in New : origin[n].at = p /\ error_list[n].kind = "wk_mismatch_ccTLDs"}

\* C11: when the fetched document of the primary has a ccTLDs field,
\* find_invalid_well_known reports its disagreement with the submitted alias
\* map as one combined mismatch finding holding the symmetric difference of
\* the keys and, for each key of both maps, of the sibling lists (and reports
\* nothing when there is none), also when the key sets differ
C11_AliasMapCombinedFinding ==
    LastCall("find_invalid_well_known") =>
        \A p \in DOMAIN check_sets :
            (/\ PrimaryDoc(p).ok
             /\ ~Omits(PrimaryDoc(p).doc, "ccTLDs")
             /\ Comparable(PrimaryDoc(p).doc, check_sets[p]))
            => LET expected == AliasMapDifference(Val(PrimaryDoc(p).doc.ccTLDs),
                                                  Val(check_sets[p].ccTLDs))
               IN  /\ Cardinality(AliasMapFindings(p)) = (IF expected = {} THEN 0 ELSE 1)
                   /\ \A n \in AliasMapFindings(p) : error_list[n].sites = expected

\* the domains a set claims: its primary, its associated sites, its service
\* sites and the siblings under its aliases
Claimed(fps) ==
    {fps.primary}
    \cup (IF Truthy(fps.associated_sites) THEN ToSet(Val(fps.associated_sites)) ELSE {})
    \cup (IF Truthy(fps.service_sites) THEN ToSet(Val(fps.service_sites)) ELSE {})
    \cup (IF Truthy(fps.ccTLDs)
          THEN UNION {ToSet(Val(fps.ccTLDs)[k].v) : k \in DOMAIN Val(fps.ccTLDs)}
          ELSE {})
ExclusivityKinds == {"excl_primary", "excl_associated", "excl_service", "excl_ccTLD"}
\* the exclusivity findings of the last call raised on the set at p that
\* name the domain d
FlaggedAt(p, d) ==
    {n \in New : /\ origin[n].at = p
                 /\ error_list[n].kind \in ExclusivityKinds
                 /\ NamesDomain(error_list[n], d)}

\* C12: the first occupant of a domain is legitimate and every later
\* claimant is flagged: for a domain claimed by two sets, in any roles among
\* primary, associated site, service site and ccTLD sibling,
\* check_exclusivity appends a finding naming the domain while processing
\* the later set, whatever else the role lists of the two sets hold
C12_LaterClaimantFlagged ==
    LastCall("check_exclusivity") =>
        \A a, b \in DOMAIN check_sets :
            a < b => \A d \in Claimed(check_sets[a]) \cap Claimed(check_sets[b]) :
                         FlaggedAt(b, d) # {}

\* the set lists no associated and no service site: each list is absent or
\* present but empty
NoMemberSites(fps) == ~Truthy(fps.associated_sites) /\ ~Truthy(fps.service_sites)

\* C13: has_all_rationales appends no finding for a set whose associatedSites
\* and serviceSites together are empty, each list absent or present but
\* empty, with or without rationaleBySite
C13_NoSitesNoFinding ==
    LastCall("has_all_rationales") =>
        \A i \in DOMAIN fps_sites :
            NoMemberSites(SetOf(i)) => {n \in New : origin[n].at = i} = {}

\* the top-level label of a site: what follows its last dot
TopLevelLabel(site) == Split(site, ".")[Len(Split(site, "."))]
\* the labels a sibling under the alias key may end in: the country codes,
\* and com when the top-level label of the key is a country code
AcceptedUnder(key) ==
    IF TopLevelLabel(key) \in icanns THEN icanns \cup {COM} ELSE icanns
\* the places of the set at p that list d as a sibling whose top-level label
\* is not accepted under its alias key
BadCountryCodeListings(p, d) ==
    LET aliases == Val(check_sets[p].ccTLDs)
    IN  UNION {{<<k, j>> : j \in {i \in DOMAIN aliases[k].v :
                                    /\ aliases[k].v[i] = d
                                    /\ TopLevelLabel(d) \notin AcceptedUnder(aliases[k].k)}}
               : k \in DOMAIN aliases}
BadCountryCodeFindings(p, d) ==
    {n \in New : /\ origin[n].at = p
                 /\ error_list[n].kind = "alias_bad_cc"
                 /\ error_list[n].site = d}

\* C14: for each sibling listed under an alias key whose top-level label can
\* be split off, find_invalid_alias_eSLDs appends a 'not a ICANN registered
\* country code' finding exactly when the top-level label of the sibling is
\* outside the country codes, widened with com exactly when the top-level
\* label of the key (the label after its last dot) is a country code
C14_CountryCodeOfSibling ==
    (LastCall("find_invalid_alias_eSLDs") /\ pc = "loaded") =>
        \A p \in DOMAIN check_sets :
            Truthy(check_sets[p].ccTLDs) =>
                \A d \in Domains :
                    Cardinality(BadCountryCodeFindings(p, d))
                        = Cardinality(BadCountryCodeListings(p, d))

\* the places whose listing of d has find_invalid_well_known fetch the
\* document of d: as a primary, an associated site, a service site or a
\* sibling under an alias
ProbedListings(d) ==
    {l \in Listings(d) : l[2] \in {"primary", "associated", "service", "alias_site"}}
\* the requests of the last call for the document of d
ProbesOf(d) == {k \in NewProbes : probes[k].url = d \o WellKnownPath}
\* the findings of the last call about the document of d
DocumentFindings(d) ==
    {n \in New : \/ /\ error_list[n].kind \in {"wk_no_primary_key", "wk_wrong_primary"}
                     /\ error_list[n].site = d
                  \/ /\ error_list[n].kind = "wk_access_error"
                     /\ error_list[n].site = d \o WellKnownPath}

\* C15: find_invalid_well_known probes each member once per listing: the
\* document of every sibling under an alias, like that of every associated
\* and service site, is fetched exactly once for each place that lists it
\* and contributes at most one finding per listing, however many aliases
\* the set has
C15_OneProbePerListing ==
    LastCall("find_invalid_well_known") =>
        \A d \in Domains :
            /\ Cardinality(ProbesOf(d)) = Cardinality(ProbedListings(d))
            /\ Cardinality(DocumentFindings(d)) <= Cardinality(ProbedListings(d))

=============================================================================
